---- MODULE Spec2Model ----
(***************************************************************************)
(* Usage metering and reset scheduling of better-auth-usage: the usage     *)
(* adapter (findLatestUsage, insertUsage, syncUsage, getCustomer,          *)
(* upsertCustomer), the reset utilities (shouldReset,                      *)
(* computeNextResetTime, checkLimit), the feature resolver and the         *)
(* consume / check / sync / upsert-customer endpoint handlers.             *)
(*                                                                         *)
(* Time.  A Date is an integer count of half hours of local time since     *)
(* 2023-01-01 00:00, a Sunday, in a zone without daylight saving.  Two     *)
(* Dates with the same count are the same instant (the same millisecond);  *)
(* the clock of a behaviour visits a few instants around a boundary.       *)
(***************************************************************************)
EXTENDS Integers, Sequences, FiniteSets, TLC

\* ------------------------------------------------------------------------
\* Calendar arithmetic of the JavaScript Date (local time, proleptic
\* Gregorian), as the getters and setters used by computeNextResetTime.

\* Resolution of the time axis: instants per hour.
TicksPerHour == 2
TicksPerDay == TicksPerHour * 24

IsLeap(y) == (y % 4 = 0 /\ y % 100 # 0) \/ y % 400 = 0

DaysInYear(y) == IF IsLeap(y) THEN 366 ELSE 365

\* m is a JavaScript month index, 0 = January.
DaysInMonth(y, m) ==
    IF m = 1 THEN (IF IsLeap(y) THEN 29 ELSE 28)
    ELSE IF m \in {3, 5, 8, 10} THEN 30 ELSE 31

RECURSIVE DaysBeforeYear(_)
DaysBeforeYear(y) ==
    IF y <= 2023 THEN 0 ELSE DaysBeforeYear(y - 1) + DaysInYear(y - 1)

RECURSIVE DaysBeforeMonth(_, _)
DaysBeforeMonth(y, m) ==
    IF m <= 0 THEN 0 ELSE DaysBeforeMonth(y, m - 1) + DaysInMonth(y, m - 1)

\* new Date(y, m, d, h, 0, 0, 0) with the overflow of m, d and h carried the
\* way Date carries it; half is the half hour within the hour (0 or 1).
MakeDate(y, m, d, h, half) ==
    LET yy == y + (m \div 12)
        mm == m % 12
    IN  (DaysBeforeYear(yy) + DaysBeforeMonth(yy, mm) + (d - 1)) * TicksPerDay
        + h * TicksPerHour + half

DayIndex(t) == t \div TicksPerDay

RECURSIVE YearFrom(_, _)
YearFrom(y, day) ==
    IF day < DaysBeforeYear(y + 1) THEN y ELSE YearFrom(y + 1, day)

RECURSIVE MonthFrom(_, _, _)
MonthFrom(y, m, dayOfYear) ==
    IF dayOfYear < DaysBeforeMonth(y, m + 1) THEN m
    ELSE MonthFrom(y, m + 1, dayOfYear)

getFullYear(t) == YearFrom(2023, DayIndex(t))
getMonth(t) ==
    MonthFrom(getFullYear(t), 0, DayIndex(t) - DaysBeforeYear(getFullYear(t)))
getDate(t) ==
    DayIndex(t) - DaysBeforeYear(getFullYear(t))
        - DaysBeforeMonth(getFullYear(t), getMonth(t)) + 1
getHours(t) == (t % TicksPerDay) \div TicksPerHour
getHalf(t) == t % TicksPerHour
\* 0 = Sunday; the epoch day is a Sunday.
getDay(t) == DayIndex(t) % 7

\* setHours(h, 0, 0, 0)
setHours(t, h) == MakeDate(getFullYear(t), getMonth(t), getDate(t), h, 0)
\* setDate(d)
setDate(t, d) ==
    MakeDate(getFullYear(t), getMonth(t), d, getHours(t), getHalf(t))
\* setMonth(m, d)
setMonth(t, m, d) == MakeDate(getFullYear(t), m, d, getHours(t), getHalf(t))
\* setFullYear(y)
setFullYear(t, y) ==
    MakeDate(y, getMonth(t), getDate(t), getHours(t), getHalf(t))
\* setFullYear(y, m, d)
setFullYear3(t, y, m, d) == MakeDate(y, m, d, getHours(t), getHalf(t))

\* ------------------------------------------------------------------------
\* utils.ts: computeNextResetTime, shouldReset, checkLimit.

\* A string-valued option that is not set.
Absent == "absent"
ResetTypes ==
    {"hourly", "6-hourly", "daily", "weekly", "monthly", "quarterly",
     "yearly", "never"}

\* computeNextResetTime with the hour of a base inside an hour left as it is.
computeNextResetTimeWithinHour(base, reset) ==
    CASE reset = "hourly" ->
            IF getHalf(base) = 0 THEN setHours(base, getHours(base) + 1)
            ELSE setHours(base, getHours(base))
      [] reset = "6-hourly" ->
            LET hour == getHours(base)
                nextBlock == (hour \div 6) * 6 + 6
            IN  IF nextBlock >= 24
                THEN setHours(setDate(base, getDate(base) + 1), 0)
                ELSE setHours(base, nextBlock)
      [] reset = "daily" -> setHours(setDate(base, getDate(base) + 1), 0)
      [] reset = "weekly" ->
            LET day == getDay(base)
                rem == (8 - day) % 7
                daysUntilNextMonday == IF rem = 0 THEN 7 ELSE rem
            IN  setHours(setDate(base, getDate(base) + daysUntilNextMonday), 0)
      [] reset = "monthly" -> setHours(setMonth(base, getMonth(base) + 1, 1), 0)
      [] reset = "quarterly" ->
            LET currentMonth == getMonth(base)
                nextQuarterStartMonth == (currentMonth \div 3) * 3 + 3
            IN  IF nextQuarterStartMonth >= 12
                THEN setHours(
                        setMonth(setFullYear(base, getFullYear(base) + 1), 0, 1),
                        0)
                ELSE setHours(setMonth(base, nextQuarterStartMonth, 1), 0)
      [] reset = "yearly" ->
            setHours(setFullYear3(base, getFullYear(base) + 1, 0, 1), 0)
      [] OTHER -> base

\* computeNextResetTime with the week starting on Sunday.
computeNextResetTimeSundayWeek(base, reset) ==
    CASE reset = "hourly" -> setHours(base, getHours(base) + 1)
      [] reset = "6-hourly" ->
            LET hour == getHours(base)
                nextBlock == (hour \div 6) * 6 + 6
            IN  IF nextBlock >= 24
                THEN setHours(setDate(base, getDate(base) + 1), 0)
                ELSE setHours(base, nextBlock)
      [] reset = "daily" -> setHours(setDate(base, getDate(base) + 1), 0)
      [] reset = "weekly" ->
            LET day == getDay(base)
                rem == (7 - day) % 7
                daysUntilNextSunday == IF rem = 0 THEN 7 ELSE rem
            IN  setHours(setDate(base, getDate(base) + daysUntilNextSunday), 0)
      [] reset = "monthly" -> setHours(setMonth(base, getMonth(base) + 1, 1), 0)
      [] reset = "quarterly" ->
            LET currentMonth == getMonth(base)
                nextQuarterStartMonth == (currentMonth \div 3) * 3 + 3
            IN  IF nextQuarterStartMonth >= 12
                THEN setHours(
                        setMonth(setFullYear(base, getFullYear(base) + 1), 0, 1),
                        0)
                ELSE setHours(setMonth(base, nextQuarterStartMonth, 1), 0)
      [] reset = "yearly" ->
            setHours(setFullYear3(base, getFullYear(base) + 1, 0, 1), 0)
      [] OTHER -> base

computeNextResetTime(base, reset) ==
    CASE reset = "hourly" -> setHours(base, getHours(base) + 1)
      [] reset = "6-hourly" ->
            LET hour == getHours(base)
                nextBlock == (hour \div 6) * 6 + 6
            IN  IF nextBlock >= 24
                THEN setHours(setDate(base, getDate(base) + 1), 0)
                ELSE setHours(base, nextBlock)
      [] reset = "daily" -> setHours(setDate(base, getDate(base) + 1), 0)
      [] reset = "weekly" ->
            LET day == getDay(base)
                rem == (8 - day) % 7
                daysUntilNextMonday == IF rem = 0 THEN 7 ELSE rem
            IN  setHours(setDate(base, getDate(base) + daysUntilNextMonday), 0)
      [] reset = "monthly" -> setHours(setMonth(base, getMonth(base) + 1, 1), 0)
      [] reset = "quarterly" ->
            LET currentMonth == getMonth(base)
                nextQuarterStartMonth == (currentMonth \div 3) * 3 + 3
            IN  IF nextQuarterStartMonth >= 12
                THEN setHours(
                        setMonth(setFullYear(base, getFullYear(base) + 1), 0, 1),
                        0)
                ELSE setHours(setMonth(base, nextQuarterStartMonth, 1), 0)
      [] reset = "yearly" ->
            setHours(setFullYear3(base, getFullYear(base) + 1, 0, 1), 0)
      [] OTHER -> base

\* The loop of shouldReset: while (nextResetTime <= now) recompute.
RECURSIVE NextResetAfter(_, _, _)
NextResetAfter(nextResetTime, now0, reset) ==
    IF nextResetTime <= now0
    THEN NextResetAfter(computeNextResetTime(nextResetTime, reset), now0, reset)
    ELSE nextResetTime

\* An optional value (T | null | undefined): None, or Some(v).
None == <<>>
Some(v) == <<v>>
\* o ?? d
OrElse(o, d) == IF o = None THEN d ELSE o[1]

\* shouldReset with a null lastReset never due.
shouldResetNullNotDue(lastReset, reset, now0) ==
    IF reset = "never"
    THEN [shouldReset |-> FALSE, nextReset |-> None]
    ELSE LET nextResetTime ==
                NextResetAfter(computeNextResetTime(now0, reset), now0, reset)
         IN  IF lastReset # None /\ lastReset[1] < nextResetTime
             THEN [shouldReset |-> TRUE, nextReset |-> Some(nextResetTime)]
             ELSE [shouldReset |-> FALSE, nextReset |-> Some(nextResetTime)]

\* shouldReset with a null lastReset due under "never" too.
shouldResetNullAlwaysDue(lastReset, reset, now0) ==
    IF reset = "never"
    THEN [shouldReset |-> lastReset = None, nextReset |-> None]
    ELSE LET nextResetTime ==
                NextResetAfter(computeNextResetTime(now0, reset), now0, reset)
         IN  IF lastReset = None \/ lastReset[1] < nextResetTime
             THEN [shouldReset |-> TRUE, nextReset |-> Some(nextResetTime)]
             ELSE [shouldReset |-> FALSE, nextReset |-> Some(nextResetTime)]

\* shouldReset with `lastReset <= nextResetTime` for its comparison.
shouldResetInclusive(lastReset, reset, now0) ==
    IF reset = "never"
    THEN [shouldReset |-> FALSE, nextReset |-> None]
    ELSE LET nextResetTime ==
                NextResetAfter(computeNextResetTime(now0, reset), now0, reset)
         IN  IF lastReset = None \/ lastReset[1] <= nextResetTime
             THEN [shouldReset |-> TRUE, nextReset |-> Some(nextResetTime)]
             ELSE [shouldReset |-> FALSE, nextReset |-> Some(nextResetTime)]

\* shouldReset, were the boundary computed once from lastReset (from now0
\* when there is none) and not advanced.
shouldResetFromLastReset(lastReset, reset, now0) ==
    IF reset = "never"
    THEN [shouldReset |-> FALSE, nextReset |-> None]
    ELSE LET nextResetTime ==
                computeNextResetTime(OrElse(lastReset, now0), reset)
         IN  IF lastReset = None \/ lastReset[1] < nextResetTime
             THEN [shouldReset |-> TRUE, nextReset |-> Some(nextResetTime)]
             ELSE [shouldReset |-> FALSE, nextReset |-> Some(nextResetTime)]

\* lastReset is an optional Date; now0 is new Date().
shouldReset(lastReset, reset, now0) ==
    IF reset = "never"
    THEN [shouldReset |-> FALSE, nextReset |-> None]
    ELSE LET nextResetTime ==
                NextResetAfter(computeNextResetTime(now0, reset), now0, reset)
         IN  IF lastReset = None \/ lastReset[1] < nextResetTime
             THEN [shouldReset |-> TRUE, nextReset |-> Some(nextResetTime)]
             ELSE [shouldReset |-> FALSE, nextReset |-> Some(nextResetTime)]

\* `maxLimit && ...` is JavaScript truthiness of an optional number: absent
\* and 0 are both falsy.
Truthy(o) == o # None /\ o[1] # 0

checkLimit(maxLimit, minLimit, value) ==
    IF Truthy(maxLimit) /\ value > maxLimit[1] THEN "above-max-limit"
    ELSE IF Truthy(minLimit) /\ value < minLimit[1] THEN "below-min-limit"
    ELSE "in-limit"

\* ------------------------------------------------------------------------
\* Configuration (UsageOptions): the base features and the overrides.

Feature(key, reset, resetValue, maxLimit, minLimit, before, after, auth) ==
    [key |-> key, reset |-> reset, resetValue |-> resetValue,
     maxLimit |-> maxLimit, minLimit |-> minLimit,
     hooksBefore |-> before, hooksAfter |-> after,
     authorizeReference |-> auth]

FeatureKeys == {"f", "g"}
\* A key that names no configured feature.
UnknownKey == "zz"
OverrideKeys == {"pro"}

\* Cadences the feature f is configured with.
FResets == ResetTypes \cup {Absent}

\* f: any cadence, no reset value, maxLimit 0, no hooks.
\* g: hourly, reset value 1, minLimit 1, both hooks.
FeatureTables ==
    { [k \in FeatureKeys |->
         IF k = "f"
         THEN Feature("f", r, None, Some(0), None, FALSE, FALSE, Absent)
         ELSE Feature("g", "hourly", Some(1), None, Some(1), TRUE, TRUE, Absent)]
      : r \in FResets }

\* The plan "pro" gives f a maxLimit of 1 and bars g.
OverrideTable ==
    [o \in OverrideKeys |->
        [features |->
            [k \in FeatureKeys |->
                IF k = "f" THEN [maxLimit |-> Some(1)]
                ELSE [authorizeReference |-> "deny"]]]]

\* ------------------------------------------------------------------------
\* resolvers/features.ts: resolveFeature.  None stands for the thrown
\* APIError("NOT_FOUND").

\* { ...feature, ...overrideFeature }
Spread(feature, overrideFeature) ==
    [k \in DOMAIN feature |->
        IF k \in DOMAIN overrideFeature THEN overrideFeature[k] ELSE feature[k]]

\* Property names every object literal inherits from Object.prototype (two
\* of them), and what reading a Feature's fields off such a member gives:
\* undefined for each.
ObjectPrototypeKeys == {"constructor", "toString"}
ObjectPrototypeMember ==
    Feature(Absent, Absent, None, None, None, FALSE, FALSE, Absent)

\* obj[key]: an own property, else an inherited one, else undefined.
Get(obj, key) ==
    IF key \in DOMAIN obj THEN Some(obj[key])
    ELSE IF key \in ObjectPrototypeKeys THEN Some(ObjectPrototypeMember)
    ELSE None

\* resolveFeature as the revision in part_010 (and getFeature of index.ts)
\* has it: the override entry is read from overrides[featureKey].
resolveFeatureByFeatureKey(featureKey, overrideKey, feats, ovs) ==
    LET feature == Get(feats, featureKey)
    IN  IF feature = None THEN None
        ELSE IF overrideKey # Absent /\ overrideKey \in DOMAIN ovs
                /\ featureKey \in DOMAIN ovs
                /\ featureKey \in DOMAIN ovs[featureKey].features
             THEN Some(Spread(feature[1], ovs[featureKey].features[featureKey]))
             ELSE feature

\* `overrideFeature` spreads its own fields only: an inherited member found
\* under overrides[overrideKey] or under override.features[featureKey]
\* changes nothing.
resolveFeature(featureKey, overrideKey, feats, ovs) ==
    LET feature == Get(feats, featureKey)
    IN  IF feature = None THEN None
        ELSE IF overrideKey # Absent /\ overrideKey \in DOMAIN ovs
                /\ featureKey \in DOMAIN ovs[overrideKey].features
             THEN Some(Spread(feature[1],
                              ovs[overrideKey].features[featureKey]))
             ELSE feature

\* ------------------------------------------------------------------------
\* State.

\* Concurrent requests in flight (handler invocations).
Procs == {"p1", "p2"}
\* Rows of the usage table in a behaviour.
MaxRows == 3
\* Instants the clock visits after the first.
MaxTicks == 2
\* 2023-12-31 (a Sunday), within the last hour of the day: the next
\* boundary of every cadence is 2024-01-01 00:00.
StartTime == MakeDate(2023, 11, 31, 23, 1)

Refs == {"c1"}
RefTypes == {"user"}

Body(featureKey, overrideKey, amount, event) ==
    [featureKey |-> featureKey, overrideKey |-> overrideKey,
     amount |-> amount, event |-> event]

\* Request bodies of POST /usage/consume.
ConsumeBodies ==
    { Body("f", Absent, 1, "use"), Body("f", "pro", 1, "use"),
      Body("g", Absent, 1, "reset"), Body("g", "pro", 1, "use"),
      Body(UnknownKey, Absent, 1, "use") }
\* Request bodies of POST /usage/check.
CheckBodies ==
    { Body("f", Absent, 0, ""), Body("f", "pro", 0, ""),
      Body("g", Absent, 0, ""), Body(UnknownKey, Absent, 0, "") }
\* Request bodies of POST /usage/sync.
SyncBodies ==
    { Body("f", Absent, 0, ""), Body("g", Absent, 0, ""),
      Body(UnknownKey, Absent, 0, "") }

VARIABLES
    now,        \* Date.now()
    features,   \* options.features
    overrides,  \* options.overrides
    customers,  \* table "customer", in insertion order
    usage,      \* table "usage", in insertion order
    pc,         \* where each request is in its handler
    req,        \* the request body
    loc,        \* the handler's local variables
    response,   \* the response being delivered by the step just taken
    call        \* a call of one of the pure functions: arguments and result

vars ==
    <<now, features, overrides, customers, usage, pc, req, loc, response, call>>

NoReq ==
    [op |-> "none", referenceId |-> "", featureKey |-> "",
     overrideKey |-> Absent, amount |-> 0, event |-> "", referenceType |-> ""]
Request(op, referenceId, body) ==
    [op |-> op, referenceId |-> referenceId, featureKey |-> body.featureKey,
     overrideKey |-> body.overrideKey, amount |-> body.amount,
     event |-> body.event, referenceType |-> ""]
\* customerType: customer.referenceType; seen: the row the handler read
\* (findLatestUsage); last: the row the transaction read; created: the row
\* it created.  Rows are named by their position in the table, 0 for
\* undefined.  hooks: the hooks of the feature the handler has invoked so
\* far, in order, each entry telling whether the callback returned or threw.
\* beforeAmount, afterAmount: the handler's constants of those names, which
\* it hands to both hooks as `usage`.
NoLoc ==
    [customerType |-> "", seen |-> 0, last |-> 0, created |-> 0, hooks |-> <<>>,
     beforeAmount |-> 0, afterAmount |-> 0]
\* status: "ok" or the error thrown ("none": no response in this step);
\* row: the usage row returned (0 for undefined); limit: the status string
\* check returns; req and loc: the request answered and its locals.
NoResponse ==
    [status |-> "none", row |-> 0, limit |-> "", req |-> NoReq, loc |-> NoLoc]
\* No pure function is being called.
NoCall == [fn |-> "none"]

Init ==
    /\ now = StartTime
    /\ features \in FeatureTables
    /\ overrides = OverrideTable
    /\ customers = <<>>
    /\ usage = <<>>
    /\ pc = [p \in Procs |-> "idle"]
    /\ req = [p \in Procs |-> NoReq]
    /\ loc = [p \in Procs |-> NoLoc]
    /\ response = NoResponse
    /\ call = NoCall

\* The feature a request resolves to (features and overrides never change).
FeatureOf(p) ==
    resolveFeature(req[p].featureKey, req[p].overrideKey, features, overrides)

\* adapter.findMany on "usage" sorted by createdAt desc, element [0]: the
\* positions that may come first (rows with equal createdAt come in an order
\* the adapter does not define).
LatestIn(I) == {i \in I : \A j \in I : usage[j].createdAt <= usage[i].createdAt}
\* where referenceId and feature
StreamRows(referenceId, featureKey) ==
    {i \in 1..Len(usage) :
        usage[i].referenceId = referenceId /\ usage[i].feature = featureKey}
\* where referenceId
CustomerRows(referenceId) ==
    {i \in 1..Len(usage) : usage[i].referenceId = referenceId}
\* usage[0] of the result, 0 when the result is empty
FirstOf(I) == IF I = {} THEN {0} ELSE LatestIn(I)

\* adapter.findOne on "customer" where referenceId
CustomerRecs(referenceId) ==
    {i \in 1..Len(customers) : customers[i].referenceId = referenceId}

Busy(p) == pc[p] # "idle"
\* A new request takes the first free handler slot.
CanStart(p) ==
    /\ ~Busy(p)
    /\ p = "p2" => Busy("p1")

\* Consume and sync requests in flight: each may append one row.
Writers == {p \in Procs : Busy(p) /\ req[p].op \in {"consume", "sync"}}
RoomForWriter == Len(usage) + Cardinality(Writers) < MaxRows

\* The request `request` with locals `locals` goes on at `label`.
Goto(p, label, request, locals) ==
    /\ pc' = [pc EXCEPT ![p] = label]
    /\ req' = [req EXCEPT ![p] = request]
    /\ loc' = [loc EXCEPT ![p] = locals]
    /\ response' = NoResponse
    /\ UNCHANGED call

\* The request returns (status "ok") or throws.
Finish(p, status, row, limit, request, locals) ==
    /\ pc' = [pc EXCEPT ![p] = "idle"]
    /\ req' = [req EXCEPT ![p] = NoReq]
    /\ loc' = [loc EXCEPT ![p] = NoLoc]
    /\ response' = [status |-> status, row |-> row, limit |-> limit,
                    req |-> request, loc |-> locals]
    /\ UNCHANGED call

\* ------------------------------------------------------------------------
\* POST /usage/consume: usageMiddleware, then the handler of
\* getConsumeEndpoint, with adapter.insertUsage inlined as its two awaits.

\* The consume request, were the endpoint to run no usageMiddleware: the
\* handler alone, up to `await adapter.getCustomer(...)`.
ConsumeGetCustomerNoMiddleware(p, referenceId, body) ==
    /\ CanStart(p)
    /\ RoomForWriter
    /\ LET request == Request("consume", referenceId, body)
           feature == resolveFeature(body.featureKey, body.overrideKey,
                                     features, overrides)
       IN  IF CustomerRecs(referenceId) = {} \/ feature = None
           THEN Finish(p, "NOT_FOUND", 0, "", request, NoLoc)
           ELSE \E i \in CustomerRecs(referenceId) :
                    Goto(p, "consume:findLatest", request,
                         [NoLoc EXCEPT !.customerType =
                                           customers[i].referenceType])
    /\ UNCHANGED <<now, features, overrides, customers, usage>>

\* middlewares/usage.ts (resolve the feature, ask authorizeReference), then
\* the handler up to `await adapter.getCustomer(...)`: NOT_FOUND when null.
ConsumeGetCustomer(p, referenceId, body) ==
    /\ CanStart(p)
    /\ RoomForWriter
    /\ LET request == Request("consume", referenceId, body)
           feature == resolveFeature(body.featureKey, body.overrideKey,
                                     features, overrides)
       IN  IF feature = None
           THEN Finish(p, "NOT_FOUND", 0, "", request, NoLoc)
           ELSE IF feature[1].authorizeReference = "deny"
           THEN Finish(p, "UNAUTHORIZED", 0, "", request, NoLoc)
           ELSE IF CustomerRecs(referenceId) = {}
           THEN Finish(p, "NOT_FOUND", 0, "", request, NoLoc)
           ELSE \E i \in CustomerRecs(referenceId) :
                    Goto(p, "consume:findLatest", request,
                         [NoLoc EXCEPT !.customerType =
                                           customers[i].referenceType])
    /\ UNCHANGED <<now, features, overrides, customers, usage>>

\* The handler up to the before hook, were a throwing hook not to end the
\* request: the handler goes on to insertUsage.
ConsumeFindLatestFailOpen(p) ==
    /\ pc[p] = "consume:findLatest"
    /\ \E i \in FirstOf(StreamRows(req[p].referenceId, FeatureOf(p)[1].key)) :
         LET beforeAmount == IF i = 0 THEN 0 ELSE usage[i].afterAmount
             locals == [loc[p] EXCEPT !.seen = i,
                                      !.beforeAmount = beforeAmount,
                                      !.afterAmount =
                                          beforeAmount + req[p].amount]
             invoked(outcome) ==
                [locals EXCEPT !.hooks = Append(@, "before:" \o outcome)]
         IN  IF FeatureOf(p)[1].hooksBefore
             THEN \/ Goto(p, "consume:txFind", req[p], invoked("returned"))
                  \/ Goto(p, "consume:txFind", req[p], invoked("threw"))
             ELSE Goto(p, "consume:txFind", req[p], locals)
    /\ UNCHANGED <<now, features, overrides, customers, usage>>

\* const lastUsage = await adapter.findLatestUsage(...), then
\* await feature.hooks.before(...) when the feature has one: the callback
\* returns or throws.
ConsumeFindLatest(p) ==
    /\ pc[p] = "consume:findLatest"
    /\ \E i \in FirstOf(StreamRows(req[p].referenceId, FeatureOf(p)[1].key)) :
         LET beforeAmount == IF i = 0 THEN 0 ELSE usage[i].afterAmount
             locals == [loc[p] EXCEPT !.seen = i,
                                      !.beforeAmount = beforeAmount,
                                      !.afterAmount =
                                          beforeAmount + req[p].amount]
             invoked(outcome) ==
                [locals EXCEPT !.hooks = Append(@, "before:" \o outcome)]
         IN  IF FeatureOf(p)[1].hooksBefore
             THEN \/ Goto(p, "consume:txFind", req[p], invoked("returned"))
                  \/ Finish(p, "HOOK_ERROR", 0, "", req[p], invoked("threw"))
             ELSE Goto(p, "consume:txFind", req[p], locals)
    /\ UNCHANGED <<now, features, overrides, customers, usage>>

\* adapter.insertUsage, first await of the transaction: tx.findMany.
InsertUsageFind(p) ==
    /\ pc[p] = "consume:txFind"
    /\ \E i \in FirstOf(StreamRows(req[p].referenceId, FeatureOf(p)[1].key)) :
            Goto(p, "consume:txCreate", req[p], [loc[p] EXCEPT !.last = i])
    /\ UNCHANGED <<now, features, overrides, customers, usage>>

\* insertUsage, were the reset branch to start the total from 0 whatever
\* the feature's resetValue.
InsertUsageRowFromZero(last, feature, referenceId, referenceType, event, amount, now0) ==
    LET reset ==
            shouldReset(IF last = 0 THEN None ELSE Some(usage[last].lastResetAt),
                        IF feature.reset = Absent THEN "never" ELSE feature.reset,
                        now0)
    IN  IF reset.shouldReset /\ reset.nextReset # None
        THEN Some([referenceId |-> referenceId,
                   referenceType |-> referenceType,
                   event |-> event,
                   amount |-> amount,
                   feature |-> feature.key,
                   lastResetAt |-> reset.nextReset[1],
                   afterAmount |-> amount,
                   createdAt |-> now0,
                   viaReset |-> TRUE,
                   op |-> "consume"])
        ELSE IF last = 0 THEN None
        ELSE Some([referenceId |-> referenceId,
                   referenceType |-> referenceType,
                   event |-> event,
                   amount |-> amount,
                   feature |-> feature.key,
                   lastResetAt |-> usage[last].lastResetAt,
                   afterAmount |-> amount + usage[last].afterAmount,
                   createdAt |-> now0,
                   viaReset |-> FALSE,
                   op |-> "consume"])

\* The row insertUsage creates from the row `last` it read (0: undefined);
\* None stands for the TypeError of lastUsage[0].lastResetAt on undefined.
\* Two fields of a row are history, not columns: viaReset tells that the row
\* was created by the branch `reset.shouldReset && reset.nextReset`, op names
\* the adapter function that created it.
InsertUsageRow(last, feature, referenceId, referenceType, event, amount, now0) ==
    LET reset ==
            shouldReset(IF last = 0 THEN None ELSE Some(usage[last].lastResetAt),
                        IF feature.reset = Absent THEN "never" ELSE feature.reset,
                        now0)
    IN  IF reset.shouldReset /\ reset.nextReset # None
        THEN Some([referenceId |-> referenceId,
                   referenceType |-> referenceType,
                   event |-> event,
                   amount |-> amount,
                   feature |-> feature.key,
                   lastResetAt |-> reset.nextReset[1],
                   afterAmount |-> amount + OrElse(feature.resetValue, 0),
                   createdAt |-> now0,
                   viaReset |-> TRUE,
                   op |-> "consume"])
        ELSE IF last = 0 THEN None
        ELSE Some([referenceId |-> referenceId,
                   referenceType |-> referenceType,
                   event |-> event,
                   amount |-> amount,
                   feature |-> feature.key,
                   lastResetAt |-> usage[last].lastResetAt,
                   afterAmount |-> amount + usage[last].afterAmount,
                   createdAt |-> now0,
                   viaReset |-> FALSE,
                   op |-> "consume"])

\* insertUsage, were the handler to pass the schema's default event "use"
\* whatever the body's event.
InsertUsageCreateDefaultEvent(p) ==
    /\ pc[p] = "consume:txCreate"
    /\ LET row == InsertUsageRow(loc[p].last, FeatureOf(p)[1],
                                 req[p].referenceId, loc[p].customerType,
                                 "use", req[p].amount, now)
           locals == [loc[p] EXCEPT !.created = Len(usage) + 1]
       IN  IF row = None
           THEN /\ Finish(p, "TYPE_ERROR", 0, "", req[p], loc[p])
                /\ UNCHANGED usage
           ELSE /\ usage' = Append(usage, row[1])
                /\ IF FeatureOf(p)[1].hooksAfter
                   THEN Goto(p, "consume:after", req[p], locals)
                   ELSE Finish(p, "ok", Len(usage) + 1, "", req[p], locals)
    /\ UNCHANGED <<now, features, overrides, customers>>

\* adapter.insertUsage, rest of the transaction: shouldReset and tx.create.
InsertUsageCreate(p) ==
    /\ pc[p] = "consume:txCreate"
    /\ LET row == InsertUsageRow(loc[p].last, FeatureOf(p)[1],
                                 req[p].referenceId, loc[p].customerType,
                                 req[p].event, req[p].amount, now)
           locals == [loc[p] EXCEPT !.created = Len(usage) + 1]
       IN  IF row = None
           THEN /\ Finish(p, "TYPE_ERROR", 0, "", req[p], loc[p])
                /\ UNCHANGED usage
           ELSE /\ usage' = Append(usage, row[1])
                /\ IF FeatureOf(p)[1].hooksAfter
                   THEN Goto(p, "consume:after", req[p], locals)
                   ELSE Finish(p, "ok", Len(usage) + 1, "", req[p], locals)
    /\ UNCHANGED <<now, features, overrides, customers>>

\* The after hook, were a callback that throws to be invoked a second time.
ConsumeAfterHookRetried(p) ==
    /\ pc[p] = "consume:after"
    /\ LET invoked(outcome) ==
                [loc[p] EXCEPT !.hooks = Append(@, "after:" \o outcome)]
           retried(outcome) ==
                [loc[p] EXCEPT !.hooks =
                    Append(Append(@, "after:threw"), "after:" \o outcome)]
       IN  \/ Finish(p, "ok", loc[p].created, "", req[p], invoked("returned"))
           \/ Finish(p, "ok", loc[p].created, "", req[p], retried("returned"))
           \/ Finish(p, "HOOK_ERROR", 0, "", req[p], retried("threw"))
    /\ UNCHANGED <<now, features, overrides, customers, usage>>

\* await feature.hooks.after(...): a throw propagates out of the handler.
ConsumeAfterHook(p) ==
    /\ pc[p] = "consume:after"
    /\ LET invoked(outcome) ==
                [loc[p] EXCEPT !.hooks = Append(@, "after:" \o outcome)]
       IN  \/ Finish(p, "ok", loc[p].created, "", req[p], invoked("returned"))
           \/ Finish(p, "HOOK_ERROR", 0, "", req[p], invoked("threw"))
    /\ UNCHANGED <<now, features, overrides, customers, usage>>

\* ------------------------------------------------------------------------
\* POST /usage/check: the handler of getCheckEndpoint.

\* getCustomer (NOT_FOUND when null), then resolveFeature.
CheckGetCustomer(p, referenceId, body) ==
    /\ CanStart(p)
    /\ LET request == Request("check", referenceId, body)
       IN  IF CustomerRecs(referenceId) = {}
              \/ resolveFeature(body.featureKey, body.overrideKey,
                                features, overrides) = None
           THEN Finish(p, "NOT_FOUND", 0, "", request, NoLoc)
           ELSE Goto(p, "check:findLatest", request, NoLoc)
    /\ UNCHANGED <<now, features, overrides, customers, usage>>

\* findLatestUsage, then checkLimit on usage?.afterAmount ?? 0.
CheckFindLatest(p) ==
    /\ pc[p] = "check:findLatest"
    /\ \E i \in FirstOf(StreamRows(req[p].referenceId, FeatureOf(p)[1].key)) :
            Finish(p, "ok", 0,
                   checkLimit(FeatureOf(p)[1].maxLimit,
                              FeatureOf(p)[1].minLimit,
                              IF i = 0 THEN 0 ELSE usage[i].afterAmount),
                   req[p], [loc[p] EXCEPT !.seen = i])
    /\ UNCHANGED <<now, features, overrides, customers, usage>>

\* ------------------------------------------------------------------------
\* POST /usage/sync: the handler of getSyncEndpoint, resolveSyncUsage and
\* adapter.syncUsage.

\* getCustomer, resolveFeature, then resolveSyncUsage: `if (feature.reset)`
\* holds for every configured cadence, "never" included.
SyncGetCustomer(p, referenceId, body) ==
    /\ CanStart(p)
    /\ RoomForWriter
    /\ LET request == Request("sync", referenceId, body)
           feature == resolveFeature(body.featureKey, body.overrideKey,
                                     features, overrides)
       IN  IF CustomerRecs(referenceId) = {} \/ feature = None
           THEN Finish(p, "NOT_FOUND", 0, "", request, NoLoc)
           ELSE \E i \in CustomerRecs(referenceId) :
                  LET locals == [NoLoc EXCEPT !.customerType =
                                                  customers[i].referenceType]
                  IN  IF feature[1].reset # Absent
                      THEN Goto(p, "sync:txFind", request, locals)
                      ELSE Finish(p, "ok", 0, "", request, locals)
    /\ UNCHANGED <<now, features, overrides, customers, usage>>

\* adapter.syncUsage, first await of the transaction: tx.findMany where
\* referenceId alone.
SyncUsageFind(p) ==
    /\ pc[p] = "sync:txFind"
    /\ \E i \in FirstOf(CustomerRows(req[p].referenceId)) :
            Goto(p, "sync:txCreate", req[p], [loc[p] EXCEPT !.last = i])
    /\ UNCHANGED <<now, features, overrides, customers, usage>>

\* The result of the rest of syncUsage from the row `last` it read:
\* [error |-> TRUE] for the TypeError of lastUsage[0].lastResetAt on
\* undefined, else the optional row to create.
SyncUsageRow(last, feature, referenceId, referenceType, now0) ==
    IF last = 0 THEN [error |-> TRUE, row |-> None]
    ELSE LET reset ==
                shouldReset(Some(usage[last].lastResetAt),
                            IF feature.reset = Absent THEN "never"
                            ELSE feature.reset,
                            now0)
         IN  IF reset.shouldReset /\ reset.nextReset # None
             THEN [error |-> FALSE,
                   row |-> Some([referenceId |-> referenceId,
                                 referenceType |-> referenceType,
                                 event |-> "reset",
                                 amount |-> 0,
                                 feature |-> feature.key,
                                 lastResetAt |-> reset.nextReset[1],
                                 afterAmount |-> OrElse(feature.resetValue, 0),
                                 createdAt |-> reset.nextReset[1],
                                 viaReset |-> TRUE,
                                 op |-> "sync"])]
             ELSE [error |-> FALSE, row |-> None]

\* syncUsage, were the reset to be written over the row read instead of
\* being created as a new row.
SyncUsageCreateInPlace(p) ==
    /\ pc[p] = "sync:txCreate"
    /\ LET r == SyncUsageRow(loc[p].last, FeatureOf(p)[1], req[p].referenceId,
                             loc[p].customerType, now)
       IN  IF r.error
           THEN /\ Finish(p, "TYPE_ERROR", 0, "", req[p], loc[p])
                /\ UNCHANGED usage
           ELSE IF r.row = None
           THEN /\ Finish(p, "ok", 0, "", req[p], loc[p])
                /\ UNCHANGED usage
           ELSE /\ usage' = [usage EXCEPT ![loc[p].last] = r.row[1]]
                /\ Finish(p, "ok", loc[p].last, "", req[p],
                          [loc[p] EXCEPT !.created = loc[p].last])
    /\ UNCHANGED <<now, features, overrides, customers>>

\* adapter.syncUsage, rest of the transaction: shouldReset and tx.create.
SyncUsageCreate(p) ==
    /\ pc[p] = "sync:txCreate"
    /\ LET r == SyncUsageRow(loc[p].last, FeatureOf(p)[1], req[p].referenceId,
                             loc[p].customerType, now)
       IN  IF r.error
           THEN /\ Finish(p, "TYPE_ERROR", 0, "", req[p], loc[p])
                /\ UNCHANGED usage
           ELSE IF r.row = None
           THEN /\ Finish(p, "ok", 0, "", req[p], loc[p])
                /\ UNCHANGED usage
           ELSE /\ usage' = Append(usage, r.row[1])
                /\ Finish(p, "ok", Len(usage) + 1, "", req[p],
                          [loc[p] EXCEPT !.created = Len(usage) + 1])
    /\ UNCHANGED <<now, features, overrides, customers>>

\* ------------------------------------------------------------------------
\* POST /usage/upsert-customer: adapter.upsertCustomer.

\* First await of the transaction: tx.findOne where referenceId.
UpsertFind(p, referenceId, referenceType) ==
    /\ CanStart(p)
    /\ \E i \in (IF CustomerRecs(referenceId) = {} THEN {0}
                 ELSE CustomerRecs(referenceId)) :
            Goto(p, "upsert:write",
                 [NoReq EXCEPT !.op = "upsert", !.referenceId = referenceId,
                               !.referenceType = referenceType],
                 [NoLoc EXCEPT !.last = i])
    /\ UNCHANGED <<now, features, overrides, customers, usage>>

\* Rest of the transaction: tx.update of the record found, else tx.create.
\* referenceId is declared unique in the plugin schema: a create that meets
\* a record made meanwhile is refused by a store that enforces the
\* constraint and stored by one that does not.
UpsertWrite(p) ==
    /\ pc[p] = "upsert:write"
    /\ LET customer == [referenceId |-> req[p].referenceId,
                        referenceType |-> req[p].referenceType]
       IN  IF loc[p].last # 0
           THEN /\ \E i \in CustomerRecs(req[p].referenceId) :
                       customers' = [customers EXCEPT ![i] = customer]
                /\ Finish(p, "ok", 0, "", req[p], loc[p])
           ELSE \/ /\ customers' = Append(customers, customer)
                   /\ Finish(p, "ok", 0, "", req[p], loc[p])
                \/ /\ CustomerRecs(req[p].referenceId) # {}
                   /\ UNCHANGED customers
                   /\ Finish(p, "CONFLICT", 0, "", req[p], loc[p])
    /\ UNCHANGED <<now, features, overrides, usage>>

\* ------------------------------------------------------------------------

\* Time passes.
Tick ==
    /\ now < StartTime + MaxTicks
    /\ now' = now + 1
    /\ response' = NoResponse
    /\ UNCHANGED <<features, overrides, customers, usage, pc, req, loc, call>>

\* The handlers run by the requests of `procs` with bodies from the given
\* sets.
Handlers(procs, consumeBodies, checkBodies, syncBodies) ==
    \E p \in procs :
        \/ \E r \in Refs, b \in consumeBodies : ConsumeGetCustomer(p, r, b)
        \/ ConsumeFindLatest(p)
        \/ InsertUsageFind(p)
        \/ InsertUsageCreate(p)
        \/ ConsumeAfterHook(p)
        \/ \E r \in Refs, b \in checkBodies : CheckGetCustomer(p, r, b)
        \/ CheckFindLatest(p)
        \/ \E r \in Refs, b \in syncBodies : SyncGetCustomer(p, r, b)
        \/ SyncUsageFind(p)
        \/ SyncUsageCreate(p)
        \/ \E r \in Refs, t \in RefTypes : UpsertFind(p, r, t)
        \/ UpsertWrite(p)

\* One request at a time.
Next == Tick \/ Handlers({"p1"}, ConsumeBodies, CheckBodies, SyncBodies)

Spec == Init /\ [][Next]_vars

\* ------------------------------------------------------------------------
\* Two requests at a time, on the feature f configured with no cadence or
\* with a monthly one.

ConcurrentFeatureTables ==
    {t \in FeatureTables : t["f"].reset \in {"never", "monthly"}}
ConcurrentConsumeBodies ==
    {Body("f", Absent, 1, "use"), Body("g", Absent, 1, "reset")}
ConcurrentKeyBodies == {Body("f", Absent, 0, "")}

InitConcurrent == Init /\ features \in ConcurrentFeatureTables

NextConcurrent ==
    \/ Tick
    \/ Handlers(Procs, ConcurrentConsumeBodies, ConcurrentKeyBodies,
                ConcurrentKeyBodies)

SpecConcurrent == InitConcurrent /\ [][NextConcurrent]_vars

\* ------------------------------------------------------------------------
\* One request at a time, f configured monthly, with a plan "day" whose
\* override gives f a daily cadence, and with requests that name a property
\* every object inherits.

PlanFeatureTables == {t \in FeatureTables : t["f"].reset = "monthly"}
PlanOverrideTable ==
    [o \in {"day"} |-> [features |-> [k \in {"f"} |-> [reset |-> "daily"]]]]
PlanConsumeBodies ==
    { Body("f", Absent, 1, "use"), Body("g", Absent, 1, "use"),
      Body("constructor", Absent, 1, "use") }
PlanCheckBodies == {Body("f", "day", 0, "")}
PlanSyncBodies == {Body("f", "day", 0, ""), Body("f", Absent, 0, "")}

InitPlans ==
    /\ now = StartTime
    /\ features \in PlanFeatureTables
    /\ overrides = PlanOverrideTable
    /\ customers = <<>>
    /\ usage = <<>>
    /\ pc = [p \in Procs |-> "idle"]
    /\ req = [p \in Procs |-> NoReq]
    /\ loc = [p \in Procs |-> NoLoc]
    /\ response = NoResponse
    /\ call = NoCall

NextPlans ==
    \/ Tick
    \/ Handlers({"p1"}, PlanConsumeBodies, PlanCheckBodies, PlanSyncBodies)

SpecPlans == InitPlans /\ [][NextPlans]_vars

\* ------------------------------------------------------------------------
\* The pure functions on their own: a call starts with arguments drawn from
\* the sets below and the function is applied to them.

\* Instants on and next to the boundaries of every cadence: first, seventh,
\* 29th and 31st days (carried into the next month where the month is
\* shorter) of January, February, March and December of a common and of a
\* leap year, at the start, before and at a 6-hour block and at the end of
\* the day.  2024-01-01 and 2024-01-29 are Mondays.
RefTimes ==
    {MakeDate(y, m, d, h, half) :
        y \in {2023, 2024}, m \in {0, 1, 2, 11}, d \in {1, 7, 29, 31},
        h \in {0, 5, 6, 23}, half \in {0, 1}}

\* lastReset of a call of shouldReset at time t: null, or a Date around t.
LastResets(t) == {None} \cup {Some(t + d) : d \in {-1, 0, 1, 2}}

\* Limits and values given to checkLimit.
Limits == {None} \cup {Some(n) : n \in -1..2}
Values == -2..3

\* Keys given to the resolver: the features, a key of no feature, and a key
\* Object.prototype defines.
ResolveKeys == FeatureKeys \cup {UnknownKey, "constructor"}
\* overrideKey: not given, a plan, a key of no plan, the key of a feature.
ResolveOverrideKeys == {Absent, "pro", UnknownKey, "f"}
\* options.overrides: the table of the requests above, one whose plan also
\* names keys that are no features, and none.
OverrideTables ==
    { OverrideTable,
      [o \in OverrideKeys |->
        [features |->
            [k \in ResolveKeys |->
                IF k = "f" THEN [maxLimit |-> Some(1), reset |-> "daily"]
                ELSE [resetValue |-> Some(2)]]]],
      <<>> }
\* Customers: without and with featureLimits for f.
CustomerArgs ==
    { [referenceId |-> "c1", referenceType |-> "user", featureLimits |-> None],
      [referenceId |-> "c1", referenceType |-> "user",
       featureLimits |->
          Some([k \in {"f"} |-> [maxLimit |-> Some(2), minLimit |-> Some(1)]])] }

\* index.ts (the single-file revision of the plugin): getFeature.  The plan
\* override is looked up under overrides[params.featureKey]; the customer's
\* featureLimits for the feature are spread last.
getFeature(featureKey, overrideKey, customer, feats, ovs) ==
    LET base == Get(feats, featureKey)
        planned ==
            IF overrideKey # Absent /\ overrideKey \in DOMAIN ovs
               /\ featureKey \in DOMAIN ovs
               /\ featureKey \in DOMAIN ovs[featureKey].features
            THEN Spread(base[1], ovs[featureKey].features[featureKey])
            ELSE base[1]
    IN  IF base = None THEN None
        ELSE IF customer.featureLimits # None
                /\ featureKey \in DOMAIN customer.featureLimits[1]
             THEN Some(Spread(planned, customer.featureLimits[1][featureKey]))
             ELSE Some(planned)

\* The resolution the endpoint handlers make for a customer they have
\* fetched: resolveFeature({ featureKey, overrideKey, features, overrides }).
ResolveForCustomer(customer, featureKey, overrideKey, feats, ovs) ==
    resolveFeature(featureKey, overrideKey, feats, ovs)

Pending(c) == "result" \notin DOMAIN c

CallsAt(t) ==
    {[fn |-> "computeNextResetTime", base |-> t, reset |-> r] :
        r \in ResetTypes}
    \cup {[fn |-> "shouldReset", lastReset |-> l, reset |-> r] :
            l \in LastResets(t), r \in ResetTypes}
TimelessCalls ==
    {[fn |-> "checkLimit", maxLimit |-> mx, minLimit |-> mn, value |-> v] :
        mx \in Limits, mn \in Limits, v \in Values}
    \cup {[fn |-> f, featureKey |-> k, overrideKey |-> o, customer |-> c,
           features |-> feats, overrides |-> ovs] :
            f \in {"resolveFeature", "getFeature"},
            k \in ResolveKeys, o \in ResolveOverrideKeys, c \in CustomerArgs,
            feats \in ConcurrentFeatureTables, ovs \in OverrideTables}

InitCalls ==
    /\ now \in RefTimes
    /\ features \in ConcurrentFeatureTables
    /\ features["f"].reset = "never"
    /\ overrides = OverrideTable
    /\ customers = <<>>
    /\ usage = <<>>
    /\ pc = [p \in Procs |-> "idle"]
    /\ req = [p \in Procs |-> NoReq]
    /\ loc = [p \in Procs |-> NoLoc]
    /\ response = NoResponse
    /\ call \in CallsAt(now) \cup (IF now = StartTime THEN TimelessCalls ELSE {})

\* The call returns `result`.
Return(result) ==
    /\ Pending(call)
    /\ call' = [k \in DOMAIN call \cup {"result"} |->
                    IF k = "result" THEN result ELSE call[k]]
    /\ UNCHANGED <<now, features, overrides, customers, usage, pc, req, loc,
                   response>>

ApplyComputeNextResetTime ==
    /\ call.fn = "computeNextResetTime"
    /\ Return(computeNextResetTime(call.base, call.reset))

\* shouldReset reads the clock: const now = new Date().
ApplyShouldReset ==
    /\ call.fn = "shouldReset"
    /\ Return(shouldReset(call.lastReset, call.reset, now))

ApplyCheckLimit ==
    /\ call.fn = "checkLimit"
    /\ Return(checkLimit(call.maxLimit, call.minLimit, call.value))

\* resolveFeature, were the override's fields to be assigned onto the
\* feature object of the table instead of onto a copy of it.
ApplyResolveFeatureAssign ==
    /\ call.fn = "resolveFeature"
    /\ Pending(call)
    /\ LET result == ResolveForCustomer(call.customer, call.featureKey,
                                        call.overrideKey, call.features,
                                        call.overrides)
           assigned ==
                IF result # None /\ call.featureKey \in DOMAIN call.features
                THEN [call.features EXCEPT ![call.featureKey] = result[1]]
                ELSE call.features
       IN  call' = [k \in DOMAIN call \cup {"result"} |->
                        IF k = "result" THEN result
                        ELSE IF k = "features" THEN assigned
                        ELSE call[k]]
    /\ UNCHANGED <<now, features, overrides, customers, usage, pc, req, loc,
                   response>>

ApplyResolveFeature ==
    /\ call.fn = "resolveFeature"
    /\ Return(ResolveForCustomer(call.customer, call.featureKey,
                                 call.overrideKey, call.features,
                                 call.overrides))

ApplyGetFeature ==
    /\ call.fn = "getFeature"
    /\ Return(getFeature(call.featureKey, call.overrideKey, call.customer,
                         call.features, call.overrides))

NextCalls ==
    \/ ApplyComputeNextResetTime
    \/ ApplyShouldReset
    \/ ApplyCheckLimit
    \/ ApplyResolveFeature
    \/ ApplyGetFeature

SpecCalls == InitCalls /\ [][NextCalls]_vars

\* ------------------------------------------------------------------------
\* Properties of the ledger.

\* feature.reset ?? "never"
Cadence(feature) == IF feature.reset = Absent THEN "never" ELSE feature.reset

\* The upcoming boundary of a cadence at time t, as shouldReset computes it.
UpcomingBoundary(reset, t) ==
    NextResetAfter(computeNextResetTime(t, reset), t, reset)

\* The feature the request `r` resolves to.
ResolvedOf(r) ==
    resolveFeature(r.featureKey, r.overrideKey, features, overrides)

\* The values feature k's resetValue ?? 0 takes over the base feature and
\* its overrides.
ResetValuesOf(k) ==
    {OrElse(resolveFeature(k, o, features, overrides)[1].resetValue, 0) :
        o \in OverrideKeys \cup {Absent}}

RECURSIVE SumAmounts(_)
SumAmounts(I) ==
    IF I = {} THEN 0
    ELSE LET i == CHOOSE j \in I : TRUE
         IN  usage[i].amount + SumAmounts(I \ {i})

\* No two rows of I carry the same createdAt.
DistinctCreatedAt(I) ==
    \A i, j \in I : usage[i].createdAt = usage[j].createdAt => i = j

\* The request p takes the step that leaves `label`.
Leaves(p, label) == pc[p] = label /\ pc'[p] # label
\* The step appends exactly one row and changes no other.
AppendsOne ==
    Len(usage') = Len(usage) + 1 /\ SubSeq(usage', 1, Len(usage)) = usage
NewRow == usage'[Len(usage')]

\* C1: two concurrent consume(1) calls on a stream with no events both
\* succeed and leave a latest afterAmount of 2, whichever commits first.
\* Stated on the second commit: a consume of 1 whose handler saw the stream
\* empty and which commits when the other consume of 1 has just committed
\* its row appends a row with afterAmount 2.
C1_ConcurrentFirstConsumes ==
    [][\A p \in Procs :
        LET S == StreamRows(req[p].referenceId, req[p].featureKey)
        IN  (/\ Leaves(p, "consume:txCreate")
             /\ req[p].amount = 1
             /\ loc[p].seen = 0
             /\ Cardinality(S) = 1
             /\ \A i \in S : /\ usage[i].op = "consume"
                             /\ usage[i].amount = 1
                             /\ usage[i].createdAt = now)
            => (AppendsOne /\ NewRow.afterAmount = 2)]_vars

\* C2: consumes running concurrently on a stream that already has events,
\* no reset boundary being crossed, each compute their afterAmount from the
\* stream's latest row at the time they commit, so that no two appends start
\* from the same prior row and the final afterAmount is the prior one plus
\* every amount.  Stated on each commit: the handler saw events on the
\* stream, and no row of the stream records a boundary that has passed.
C2_AppendFromLatestRow ==
    [][\A p \in Procs :
        LET S == StreamRows(req[p].referenceId, req[p].featureKey)
        IN  (/\ Leaves(p, "consume:txCreate")
             /\ loc[p].seen # 0
             /\ DistinctCreatedAt(S)
             /\ \A i \in S :
                    ~shouldReset(Some(usage[i].lastResetAt),
                                 Cadence(FeatureOf(p)[1]), now).shouldReset)
            => (/\ AppendsOne
                /\ \A i \in LatestIn(S) :
                      NewRow.afterAmount = usage[i].afterAmount + req[p].amount)]_vars

\* C3: N consume calls one after the other on one stream, no reset boundary
\* crossed, leave a last event whose afterAmount is the sum of the N
\* amounts.  Stated on the N-th call: when the stream holds the rows of N-1
\* consumes made at distinct earlier instants of the current cadence period,
\* the call appends a row whose afterAmount is the sum of their amounts plus
\* its own.
C3_SequentialConsumesSum ==
    [][\A p \in Procs :
        LET S == StreamRows(req[p].referenceId, req[p].featureKey)
            reset == Cadence(FeatureOf(p)[1])
        IN  (/\ Leaves(p, "consume:txCreate")
             /\ DistinctCreatedAt(S)
             /\ \A i \in S :
                    /\ usage[i].op = "consume"
                    /\ usage[i].createdAt < now
                    /\ UpcomingBoundary(reset, usage[i].createdAt)
                         = UpcomingBoundary(reset, now))
            => (AppendsOne
                /\ NewRow.afterAmount = SumAmounts(S) + req[p].amount)]_vars

\* C4: in every stream ordered by createdAt, each event's afterAmount is the
\* previous event's afterAmount plus its own amount, unless the event is a
\* reset crossing, whose afterAmount is resetValue (default 0) plus its
\* amount.
C4_ChainInvariant ==
    \A r \in Refs, k \in FeatureKeys :
        LET S == StreamRows(r, k)
        IN  DistinctCreatedAt(S) =>
              \A i \in S :
                IF usage[i].viaReset
                THEN usage[i].afterAmount - usage[i].amount \in ResetValuesOf(k)
                ELSE \A j \in S :
                        (/\ usage[j].createdAt < usage[i].createdAt
                         /\ \A l \in S :
                               ~(/\ usage[j].createdAt < usage[l].createdAt
                                 /\ usage[l].createdAt < usage[i].createdAt))
                        => usage[i].afterAmount
                             = usage[j].afterAmount + usage[i].amount

\* C5: the first consume on a stream with no events succeeds and appends an
\* event whose afterAmount is its amount, for every cadence (never and
\* absent included) and every resetValue.
C5_FirstConsume ==
    [][\A p \in Procs :
        (/\ Leaves(p, "consume:txCreate")
         /\ StreamRows(req[p].referenceId, req[p].featureKey) = {})
        => (AppendsOne /\ NewRow.afterAmount = req[p].amount)]_vars

\* C6: consume neither rejects nor clamps on limits: on a monthly feature
\* with maxLimit M, two consumes a then b in the same month on a fresh
\* stream leave a cumulative of a + b, and when a + b > M a check issued
\* afterwards returns above-max-limit.
C6_ConsumePastLimit ==
    LET q == response.req
        S == StreamRows(q.referenceId, q.featureKey)
        t == now
    IN  (/\ q.op = "check"
         /\ response.status = "ok"
         /\ ResolvedOf(q)[1].reset = "monthly"
         /\ ResolvedOf(q)[1].maxLimit # None
         /\ Cardinality(S) = 2
         /\ DistinctCreatedAt(S)
         /\ \A i \in S : /\ usage[i].op = "consume"
                         /\ getMonth(usage[i].createdAt) = getMonth(t)
                         /\ getFullYear(usage[i].createdAt) = getFullYear(t))
        => (/\ \A i \in LatestIn(S) : usage[i].afterAmount = SumAmounts(S)
            /\ SumAmounts(S) > ResolvedOf(q)[1].maxLimit[1]
                  => response.limit = "above-max-limit")

C8_SyncAppendsIffDue ==
    [][\A p \in Procs :
        LET S == StreamRows(req[p].referenceId, req[p].featureKey)
            feature == FeatureOf(p)[1]
            upcoming == UpcomingBoundary(feature.reset, now)
        IN  (/\ Leaves(p, "sync:txCreate")
             /\ feature.reset \notin {"never", Absent}
             /\ S # {})
            => (/\ (\A i \in LatestIn(S) : usage[i].lastResetAt < upcoming)
                      => (/\ AppendsOne
                          /\ NewRow.referenceId = req[p].referenceId
                          /\ NewRow.feature = feature.key
                          /\ NewRow.event = "reset"
                          /\ NewRow.amount = 0
                          /\ NewRow.afterAmount = OrElse(feature.resetValue, 0)
                          /\ NewRow.lastResetAt = upcoming)
                /\ (\A i \in LatestIn(S) : ~(usage[i].lastResetAt < upcoming))
                      => UNCHANGED usage)]_vars

\* C9: sync on a stream with no events, the cadence not being never, takes
\* the last boundary for null, finds the reset due and appends exactly one
\* reset row with afterAmount = resetValue; it does not fail.
C9_SyncOnEmptyStream ==
    [][\A p \in Procs :
        LET feature == FeatureOf(p)[1]
        IN  (/\ Leaves(p, "sync:txCreate")
             /\ feature.reset \notin {"never", Absent}
             /\ StreamRows(req[p].referenceId, req[p].featureKey) = {})
            => (/\ response'.status = "ok"
                /\ AppendsOne
                /\ NewRow.feature = feature.key
                /\ NewRow.event = "reset"
                /\ NewRow.afterAmount = OrElse(feature.resetValue, 0))]_vars

\* C10: sync on a feature whose cadence is never is a no-op: it returns
\* without error and appends no row, whatever rows the customer has (none
\* included).
C10_SyncNeverIsNoOp ==
    LET q == response.req
    IN  (/\ q.op = "sync"
         /\ response.loc.customerType # ""
         /\ ResolvedOf(q)[1].reset = "never")
        => (response.status = "ok" /\ response.row = 0)

\* ------------------------------------------------------------------------
\* Properties of the pure functions.

Returned(fn) == call.fn = fn /\ ~Pending(call)

\* C11: for every reference time t and every cadence but never, the
\* boundary computed from t is strictly later than t, also when t lies
\* exactly on a boundary.
C11_BoundaryStrictlyLater ==
    (Returned("computeNextResetTime") /\ call.reset # "never")
        => call.result > call.base

\* The boundary has been computed from a Monday 00:00 for the weekly
\* cadence: it is the Monday a week later.
C11_FromMondayMidnight ==
    /\ Returned("computeNextResetTime")
    /\ call.reset = "weekly"
    /\ getDay(call.base) = 1 /\ getHours(call.base) = 0 /\ getHalf(call.base) = 0
    /\ call.result = call.base + 7 * TicksPerDay

\* C12: for a cadence other than never the decision is due exactly when
\* lastBoundary is null or strictly earlier than the upcoming boundary
\* computed from now, and that boundary is the one reported.
C12_DueByDefinition ==
    (Returned("shouldReset") /\ call.reset # "never")
        => LET upcoming == computeNextResetTime(now, call.reset)
           IN  /\ call.result.shouldReset
                    = (call.lastReset = None \/ call.lastReset[1] < upcoming)
               /\ call.result.nextReset = Some(upcoming)

\* A lastBoundary equal to the upcoming boundary has been decided: not due.
C12_EqualBoundaryNotDue ==
    /\ Returned("shouldReset")
    /\ call.reset # "never"
    /\ call.lastReset = Some(computeNextResetTime(now, call.reset))
    /\ ~call.result.shouldReset

\* C13: for the cadence never the decision is not due for every
\* lastBoundary, null included, and every now, and no upcoming boundary is
\* reported.
C13_NeverIsNeverDue ==
    (Returned("shouldReset") /\ call.reset = "never")
        => (~call.result.shouldReset /\ call.result.nextReset = None)

\* The decision has been made for never with a null lastBoundary.
C13_NeverWithNull ==
    /\ Returned("shouldReset")
    /\ call.reset = "never"
    /\ call.lastReset = None
    /\ ~call.result.shouldReset

\* C14: a limit configured as exactly 0 is enforced: with maxLimit = 0 a
\* value greater than 0 is above-max-limit, and with minLimit = 0 a value
\* less than 0 (and not above the maxLimit) is below-min-limit.
C14_ZeroLimitEnforced ==
    Returned("checkLimit")
        => /\ (call.maxLimit = Some(0) /\ call.value > 0)
                => call.result = "above-max-limit"
           /\ (/\ call.minLimit = Some(0) /\ call.value < 0
               /\ (call.maxLimit = None \/ call.value <= call.maxLimit[1]))
                => call.result = "below-min-limit"

\* C15: the bounds are inclusive and the maximum is checked first: a value
\* above maxLimit is above-max-limit, also when it is below minLimit; a
\* value below minLimit and not above maxLimit is below-min-limit; a value
\* equal to one of the limits and within the other is in-limit.
C15_InclusiveMaxFirst ==
    Returned("checkLimit")
        => LET v == call.value
               aboveMax == call.maxLimit # None /\ v > call.maxLimit[1]
               belowMin == call.minLimit # None /\ v < call.minLimit[1]
           IN  /\ aboveMax => call.result = "above-max-limit"
               /\ (belowMin /\ ~aboveMax) => call.result = "below-min-limit"
               /\ (/\ call.maxLimit = Some(v) \/ call.minLimit = Some(v)
                   /\ ~aboveMax /\ ~belowMin)
                    => call.result = "in-limit"

\* The fields a plan override and a customer's own featureLimits give for
\* the feature a call resolves (no fields when there is no such entry).
PlanFields(c) ==
    IF c.overrideKey # Absent /\ c.overrideKey \in DOMAIN c.overrides
       /\ c.featureKey \in DOMAIN c.overrides[c.overrideKey].features
    THEN c.overrides[c.overrideKey].features[c.featureKey]
    ELSE <<>>
CustomerFields(c) ==
    IF c.customer.featureLimits # None
       /\ c.featureKey \in DOMAIN c.customer.featureLimits[1]
    THEN c.customer.featureLimits[1][c.featureKey]
    ELSE <<>>

\* C16: resolution layers base, plan override, customer override in that
\* order: a field present in both the plan override and the customer's
\* override for the feature resolves to the customer's value, and a field
\* present in neither resolves to the base feature's value.
C16_CustomerOverPlanOverBase ==
    (Returned("resolveFeature") /\ call.featureKey \in DOMAIN call.features)
        => /\ call.result # None
           /\ \A k \in DOMAIN call.features[call.featureKey] :
                LET inPlan == k \in DOMAIN PlanFields(call)
                    inCustomer == k \in DOMAIN CustomerFields(call)
                IN  /\ (inPlan /\ inCustomer)
                        => call.result[1][k] = CustomerFields(call)[k]
                    /\ (~inPlan /\ ~inCustomer)
                        => call.result[1][k]
                            = call.features[call.featureKey][k]

C18_UnknownFeatureNotFound ==
    (Returned("resolveFeature") /\ call.featureKey \notin DOMAIN call.features)
        => call.result = None

\* ------------------------------------------------------------------------
\* Properties of the hooks.

\* The locals of p after a step: those its response carries when the step
\* ended the request, else those it goes on with.
LocalsAfter(p) == IF pc'[p] = "idle" THEN response'.loc ELSE loc'[p]

\* C19: when the before hook of a consume fails, the consume fails, no row
\* is appended to the ledger and the after hook is not invoked.
C19_BeforeHookFailsClosed ==
    [][\A p \in Procs :
        (/\ Leaves(p, "consume:findLatest")
         /\ LocalsAfter(p).hooks # <<>>
         /\ LocalsAfter(p).hooks[Len(LocalsAfter(p).hooks)] = "before:threw")
            => /\ pc'[p] = "idle"
               /\ response'.status = "HOOK_ERROR"
               /\ response'.row = 0
               /\ usage' = usage
               /\ LocalsAfter(p).created = 0
               /\ LocalsAfter(p).hooks = <<"before:threw">>]_vars
C19_BeforeHookThrew ==
    /\ response.status = "HOOK_ERROR"
    /\ response.loc.hooks = <<"before:threw">>
    /\ response.loc.created = 0
    /\ usage # <<>>

\* C20: when the after hook of a consume fails, the consume still reports
\* success and returns the appended event, and the appended row stays in
\* the ledger.
C20_AfterHookFailureNotSurfaced ==
    (/\ response.loc.hooks # <<>>
     /\ response.loc.hooks[Len(response.loc.hooks)] = "after:threw")
        => /\ response.loc.created \in 1..Len(usage)
           /\ usage[response.loc.created].op = "consume"
           /\ response.status = "ok"
           /\ response.row = response.loc.created

\* ------------------------------------------------------------------------
\* Properties of the requests.

\* The step is the first of a request `op` of p: the request it starts,
\* whether the step also ends it or not.
Starts(p, op) ==
    /\ pc[p] = "idle"
    /\ \A q \in Procs \ {p} : pc'[q] = pc[q]
    /\ \/ pc'[p] # "idle" /\ req'[p].op = op
       \/ pc'[p] = "idle" /\ response'.req.op = op
Started(p) == IF pc'[p] = "idle" THEN response'.req ELSE req'[p]
\* The step ends a request of p with a failure and no effect: nothing is
\* written and no hook has been invoked.
FailsUntouched(p, status) ==
    /\ pc'[p] = "idle"
    /\ response'.status = status
    /\ response'.row = 0
    /\ response'.loc.created = 0
    /\ response'.loc.hooks = <<>>
    /\ usage' = usage
    /\ customers' = customers

LimitStatus(maxLimit, minLimit, value) ==
    IF maxLimit # None /\ value > maxLimit[1] THEN "above-max-limit"
    ELSE IF minLimit # None /\ value < minLimit[1] THEN "below-min-limit"
    ELSE "in-limit"

\* C22: check never mutates (no row appended, no customer changed), and
\* its result is the limit status of the afterAmount of the stream's latest
\* event, or of 0 when the stream has no events, under the resolved
\* feature's minLimit and maxLimit.
C22_CheckReadsAndEvaluates ==
    [][\A p \in Procs :
        (Starts(p, "check") \/ Leaves(p, "check:findLatest"))
            => /\ usage' = usage
               /\ customers' = customers
               /\ (pc'[p] = "idle" /\ response'.status = "ok")
                    => LET r == response'.req
                           feature == resolveFeature(r.featureKey,
                                          r.overrideKey, features, overrides)
                           S == StreamRows(r.referenceId, r.featureKey)
                           i == response'.loc.seen
                       IN  /\ i \in FirstOf(S)
                           /\ response'.limit
                                = LimitStatus(feature[1].maxLimit,
                                      feature[1].minLimit,
                                      IF i = 0 THEN 0
                                      ELSE usage[i].afterAmount)]_vars

\* C23: streams are independent: whether a consume or a sync on stream
\* (r, f) applies a reset, and the row it appends, are determined by the
\* events of stream (r, f) alone (with the feature and the clock), whatever
\* events the customer has under other features.  Stated as: the outcome
\* of the append is the one computed from a latest event of the stream
\* itself.  For sync, stated for a stream that has events.
C23_StreamsIndependent ==
    [][\A p \in Procs :
        LET S == StreamRows(req[p].referenceId, req[p].featureKey)
        IN  /\ Leaves(p, "consume:txCreate")
                => \E l \in FirstOf(S) :
                     LET row == InsertUsageRow(l, FeatureOf(p)[1],
                                    req[p].referenceId, loc[p].customerType,
                                    req[p].event, req[p].amount, now)
                     IN  IF row = None THEN usage' = usage
                         ELSE usage' = Append(usage, row[1])
            /\ (Leaves(p, "sync:txCreate") /\ S # {})
                => \E l \in LatestIn(S) :
                     LET r == SyncUsageRow(l, FeatureOf(p)[1],
                                  req[p].referenceId, loc[p].customerType,
                                  now)
                     IN  IF r.row = None THEN usage' = usage
                         ELSE usage' = Append(usage, r.row[1])]_vars

\* The rows already in the stream the appended row joins.
StreamOfNewRow == StreamRows(NewRow.referenceId, NewRow.feature)

\* C24: within every stream createdAt increases strictly in the order of
\* appending: no event is appended with a createdAt equal to or earlier than
\* that of an event already in the stream.  Stated for an append whose
\* createdAt differs from that of every event of the stream, so that two
\* appends made at one reading of the clock are set aside.
C24_CreatedAtIncreases ==
    [][(/\ AppendsOne
        /\ \A i \in StreamOfNewRow : usage[i].createdAt # NewRow.createdAt)
            => \A i \in StreamOfNewRow :
                    usage[i].createdAt < NewRow.createdAt]_vars

\* C25: within every stream the boundary markers (lastResetAt) never
\* decrease from one event to the next, in the order of appending, the
\* clock never going back.  Stated for customers none of whose events
\* share a createdAt.
C25_MarkersNeverDecrease ==
    \A i, j \in 1..Len(usage) :
        (/\ i < j
         /\ usage[i].referenceId = usage[j].referenceId
         /\ usage[i].feature = usage[j].feature
         /\ DistinctCreatedAt(CustomerRows(usage[i].referenceId)))
            => usage[i].lastResetAt <= usage[j].lastResetAt

\* C26: a consume or a check for a referenceId with no stored customer
\* fails with NotFound, and a consume for a featureKey that is not a key of
\* the features table fails with NotFound; in each case no row is appended
\* and no hook is invoked.  Stated for requests the feature's authorize
\* predicate does not refuse.
C26_NotFoundUntouched ==
    [][\A p \in Procs :
        LET r == Started(p)
            feature == resolveFeature(r.featureKey, r.overrideKey,
                                      features, overrides)
            refused == feature # None /\ feature[1].authorizeReference = "deny"
            noCustomer == CustomerRecs(r.referenceId) = {}
        IN  /\ (Starts(p, "consume") /\ ~refused
                /\ (noCustomer \/ r.featureKey \notin DOMAIN features))
                    => FailsUntouched(p, "NOT_FOUND")
            /\ (Starts(p, "check") /\ noCustomer)
                    => FailsUntouched(p, "NOT_FOUND")]_vars

C28_HookUsageMatchesEvent ==
    LET l == response.loc
        S == StreamRows(response.req.referenceId, response.req.featureKey)
    IN  (/\ response.req.op = "consume" /\ l.hooks # <<>> /\ l.created # 0
         /\ DistinctCreatedAt(S))
            => /\ l.beforeAmount
                    = (IF l.last = 0 THEN 0 ELSE usage[l.last].afterAmount)
               /\ l.afterAmount = usage[l.created].afterAmount

\* The grid of a cadence: the instants that are boundaries of it.
IsBoundary(reset, t) ==
    LET topOfHour == getHalf(t) = 0
        midnight == topOfHour /\ getHours(t) = 0
        firstOfMonth == midnight /\ getDate(t) = 1
    IN  CASE reset = "hourly" -> topOfHour
          [] reset = "6-hourly" -> topOfHour /\ getHours(t) \in {0, 6, 12, 18}
          [] reset = "daily" -> midnight
          [] reset = "weekly" -> midnight /\ getDay(t) = 1
          [] reset = "monthly" -> firstOfMonth
          [] reset = "quarterly" -> firstOfMonth /\ getMonth(t) \in {0, 3, 6, 9}
          [] reset = "yearly" -> firstOfMonth /\ getMonth(t) = 0
          [] OTHER -> FALSE

\* C29: the upcoming boundary computed from a time t is, for each cadence
\* other than never, the earliest boundary of the cadence's grid strictly
\* after t: top of hour; 00:00, 06:00, 12:00, 18:00; midnight; Monday 00:00
\* (7 days later from a Monday 00:00); first of a month; first of January,
\* April, July, October; first of January.
C29_EarliestBoundaryAfter ==
    (Returned("computeNextResetTime") /\ call.reset # "never")
        => /\ call.result > call.base
           /\ IsBoundary(call.reset, call.result)
           /\ \A u \in (call.base + 1)..(call.result - 1) :
                ~IsBoundary(call.reset, u)
C29_QuarterFromLeapDay ==
    /\ Returned("computeNextResetTime")
    /\ call.reset = "quarterly"
    /\ call.base = MakeDate(2024, 1, 29, 23, 1)
    /\ call.result = MakeDate(2024, 3, 1, 0, 0)

\* C30: only sync appends events tagged "reset": no consume, whatever
\* event tag its caller supplies, results in a row whose event is "reset".
C30_ResetTagReserved ==
    \A i \in 1..Len(usage) : usage[i].event = "reset" => usage[i].op = "sync"

\* ------------------------------------------------------------------------
\* Properties of the customer store.

\* C31: after any sequence or interleaving of upsertCustomer calls there is
\* at most one customer record per referenceId, every upsert takes effect
\* (a lookup by its referenceId returns the fields it stored), and an upsert
\* of a customer already stored leaves the store as it was.
C31_OneRecordPerReference ==
    /\ \A r \in Refs : Cardinality(CustomerRecs(r)) <= 1
    /\ response.req.op = "upsert"
        => /\ response.status = "ok"
           /\ \A i \in CustomerRecs(response.req.referenceId) :
                customers[i] = [referenceId |-> response.req.referenceId,
                                referenceType |-> response.req.referenceType]

\* C32: the ledger is append-only: no step of a consume, check, sync or
\* upsert deletes a usage row or changes a field of one; the rows after a
\* step are those before it, followed by the rows the step appended.
C32_AppendOnly ==
    [][/\ Len(usage') >= Len(usage)
       /\ SubSeq(usage', 1, Len(usage)) = usage]_vars
C32_AfterEveryOperation ==
    /\ \E i \in 1..Len(usage) : usage[i].op = "consume"
    /\ \E i \in 1..Len(usage) : usage[i].op = "sync"
    /\ response.req.op = "check" /\ response.status = "ok"
    /\ customers # <<>>

Streams == {<<usage[i].referenceId, usage[i].feature>> : i \in 1..Len(usage)}
\* The event appended last to a non-empty set of rows.
LastAppended(I) == CHOOSE i \in I : \A j \in I : j <= i

\* C34: after any sequence of consume and sync calls on a stream, the
\* event returned as the stream's latest (greatest createdAt) is the event
\* appended last to the stream.  Stated for streams no two events of which
\* share a createdAt.
C34_LatestIsLastAppended ==
    \A s \in Streams :
        LET S == StreamRows(s[1], s[2])
        IN  DistinctCreatedAt(S) => LatestIn(S) = {LastAppended(S)}

\* C35: usage consumed after a sync reset is counted: when check answers
\* for a stream whose last reset row was appended by sync, followed by
\* consumes only, before that row's boundary, the cumulative check
\* evaluates and the afterAmount of the event appended last are both the
\* reset row's value plus the amounts consumed after it.  Stated for
\* streams no two events of which share a createdAt.
C35_ConsumesAfterSyncCounted ==
    LET q == response.req
        S == StreamRows(q.referenceId, q.featureKey)
        Syncs == {i \in S : usage[i].op = "sync"}
    IN  (/\ q.op = "check" /\ response.status = "ok"
         /\ Syncs # {}
         /\ DistinctCreatedAt(S)
         /\ now < usage[LastAppended(Syncs)].lastResetAt
         /\ \E i \in S : i > LastAppended(Syncs)
         /\ \A i \in S : i > LastAppended(Syncs) => ~usage[i].viaReset)
        => LET r == LastAppended(Syncs)
               counted == usage[r].afterAmount
                            + SumAmounts({i \in S : i > r})
           IN  /\ usage[LastAppended(S)].afterAmount = counted
               /\ response.loc.seen # 0
               /\ usage[response.loc.seen].afterAmount = counted

\* C36: for a cadence other than never, a consume at `now` applies the reset
\* baseline if and only if the stream has no events or now is at or after
\* the marker recorded on the stream's latest event: a consume strictly
\* before the marker never resets, the first consume at or after it does.
C36_ResetIffAtOrAfterMarker ==
    [][\A p \in Procs :
        (Leaves(p, "consume:txCreate") /\ Cadence(FeatureOf(p)[1]) # "never")
            => LET l == loc[p].last
               IN  (AppendsOne /\ NewRow.viaReset)
                    <=> (l = 0 \/ now >= usage[l].lastResetAt)]_vars

\* C36, for a latest marker that is a boundary of the cadence the request
\* resolves to: the consume applies the reset baseline if and only if the
\* stream has no events or now is at or after that marker.
C36_ResetIffAtOrAfterOwnBoundary ==
    [][\A p \in Procs :
        LET l == loc[p].last
            cadence == Cadence(FeatureOf(p)[1])
        IN  (/\ Leaves(p, "consume:txCreate")
             /\ cadence # "never"
             /\ l # 0 => IsBoundary(cadence, usage[l].lastResetAt))
                => ((AppendsOne /\ NewRow.viaReset)
                        <=> (l = 0 \/ now >= usage[l].lastResetAt))]_vars
\* A consume of f found an event of f whose marker had been reached and
\* applied the baseline.
C36_ResetAtMarker ==
    \E i, j \in StreamRows("c1", "f") :
        /\ i < j
        /\ usage[i].op = "consume" /\ usage[j].op = "consume"
        /\ usage[j].viaReset
        /\ usage[j].createdAt = usage[i].lastResetAt
        /\ \A k \in StreamRows("c1", "f") : k <= j

\* An event of a stream that is a reset crossing: a "reset" row of sync or
\* the row of a consume that applied the baseline.  Its marker is the end of
\* the cadence period it was appended in.
ResetCrossings(I) == {i \in I : usage[i].viaReset}

\* C37: within one cadence period at most one event appended to a stream is
\* a reset crossing, for every interleaving of consume and sync on any of
\* the customer's features: no two reset crossings of a stream carry the
\* same marker.  Stated for customers no two events of which share a
\* createdAt.
C37_OneCrossingPerPeriod ==
    \A s \in Streams :
        DistinctCreatedAt(CustomerRows(s[1]))
            => \A i, j \in ResetCrossings(StreamRows(s[1], s[2])) :
                usage[i].lastResetAt = usage[j].lastResetAt => i = j

\* ------------------------------------------------------------------------
\* Properties of one consume.

\* The step is one of a consume request of p.
ConsumeStep(p) ==
    Starts(p, "consume") \/ (req[p].op = "consume" /\ pc'[p] # pc[p])
\* The request that step belongs to.
ConsumeOf(p) == IF pc[p] = "idle" THEN Started(p) ELSE req[p]

\* C38: every successful consume appended exactly one row, to the stream
\* (referenceId, resolved feature key), with the request's amount and event
\* and the stored customer's referenceType, and left every other stream and
\* every customer unchanged; every consume that failed before the append
\* appended none.  Stated on the steps of a consume: no step changes a
\* customer; the only step that changes the ledger is the one append of the
\* request, which adds that row and changes no other; a consume that
\* returns has made its append.
C38_ConsumeAppendsItsRow ==
    [][\A p \in Procs :
        ConsumeStep(p)
            => LET r == ConsumeOf(p)
               IN  /\ customers' = customers
                   /\ usage' # usage
                        => /\ Leaves(p, "consume:txCreate")
                           /\ loc[p].created = 0
                           /\ AppendsOne
                           /\ LocalsAfter(p).created = Len(usage')
                           /\ NewRow.referenceId = r.referenceId
                           /\ NewRow.feature = FeatureOf(p)[1].key
                           /\ NewRow.amount = r.amount
                           /\ NewRow.event = r.event
                           /\ \E i \in CustomerRecs(r.referenceId) :
                                NewRow.referenceType = customers[i].referenceType
                   /\ (pc'[p] = "idle" /\ response'.status = "ok")
                        => LocalsAfter(p).created # 0
                   /\ (pc'[p] = "idle" /\ LocalsAfter(p).created = 0)
                        => /\ response'.status # "ok"
                           /\ usage' = usage]_vars
\* A consume of g with the event "reset" returned, and one of the unknown
\* feature failed, the ledger holding the one row of the first.
C38_OneRowOfTheRequest ==
    /\ Len(usage) = 1
    /\ usage[1].op = "consume" /\ usage[1].feature = "g"
    /\ usage[1].event = "reset" /\ usage[1].referenceType = "user"
    /\ response.req.op = "consume" /\ response.req.featureKey = UnknownKey
    /\ response.status = "NOT_FOUND"

\* The entries of the log of invoked hooks.
BeforeEntries == {"before:returned", "before:threw"}
AfterEntries == {"after:returned", "after:threw"}
\* The entries the step adds to the log of p's hooks.
InvokedBy(p) ==
    LET old == IF pc[p] = "idle" THEN <<>> ELSE loc[p].hooks
        new == LocalsAfter(p).hooks
    IN  IF Len(new) >= Len(old) /\ SubSeq(new, 1, Len(old)) = old
        THEN SubSeq(new, Len(old) + 1, Len(new))
        ELSE <<"lost">>
\* The successions of positions of the consume handler.
ConsumeOrder ==
    { <<"idle", "idle">>, <<"idle", "consume:findLatest">>,
      <<"consume:findLatest", "idle">>, <<"consume:findLatest", "consume:txFind">>,
      <<"consume:txFind", "consume:txCreate">>,
      <<"consume:txCreate", "idle">>, <<"consume:txCreate", "consume:after">>,
      <<"consume:after", "idle">> }

\* C39: within one consume the steps occur in the order authorize, read
\* latest, before hook, append, after hook: the request goes past its first
\* step only when authorized; the before hook is invoked after the latest
\* event was read and has returned before the append; the after hook is
\* invoked only when the appended row is in the ledger; each hook is
\* invoked at most once.
C39_StepsInOrder ==
    [][\A p \in Procs :
        ConsumeStep(p)
            => LET r == ConsumeOf(p)
                   feature == ResolvedOf(r)
                   S == StreamRows(r.referenceId, r.featureKey)
                   invoked == InvokedBy(p)
                   log == LocalsAfter(p).hooks
               IN  /\ <<pc[p], pc'[p]>> \in ConsumeOrder
                   /\ pc'[p] # "idle"
                        => feature # None /\ feature[1].authorizeReference # "deny"
                   /\ Len(invoked) <= 1
                   /\ (invoked # <<>> /\ invoked[1] \in BeforeEntries)
                        => /\ pc[p] = "consume:findLatest"
                           /\ loc[p].hooks = <<>>
                           /\ LocalsAfter(p).seen \in FirstOf(S)
                           /\ loc[p].created = 0
                           /\ usage' = usage
                   /\ usage' # usage
                        => /\ pc[p] = "consume:txCreate"
                           /\ invoked = <<>>
                           /\ loc[p].hooks = IF feature[1].hooksBefore
                                             THEN <<"before:returned">>
                                             ELSE <<>>
                   /\ (invoked # <<>> /\ invoked[1] \in AfterEntries)
                        => /\ pc[p] = "consume:after"
                           /\ loc[p].created \in S
                           /\ usage' = usage
                           /\ \A k \in 1..Len(loc[p].hooks) :
                                loc[p].hooks[k] \notin AfterEntries
                   /\ \A j, k \in 1..Len(log) :
                        (\/ {log[j], log[k]} \subseteq BeforeEntries
                         \/ {log[j], log[k]} \subseteq AfterEntries) => j = k]_vars
\* A consume of g returned after both of its hooks and its append.
C39_BothHooksAroundAppend ==
    /\ response.req.op = "consume" /\ response.status = "ok"
    /\ response.loc.hooks = <<"before:returned", "after:returned">>
    /\ response.loc.created = Len(usage)
    /\ response.loc.seen # response.loc.created

\* ------------------------------------------------------------------------
\* Properties of the loop of shouldReset.

\* while (nextResetTime <= now) ... ends within `iterations` iterations.
RECURSIVE LoopEndsWithin(_, _, _, _)
LoopEndsWithin(nextResetTime, now0, reset, iterations) ==
    \/ nextResetTime > now0
    \/ /\ iterations > 0
       /\ LoopEndsWithin(computeNextResetTime(nextResetTime, reset), now0,
                         reset, iterations - 1)

\* C40: the reset-due loop terminates for every cadence other than never
\* and every now, and the boundary reported is strictly after now.
C40_LoopEndsAfterNow ==
    (Returned("shouldReset") /\ call.reset # "never")
        => /\ LoopEndsWithin(computeNextResetTime(now, call.reset), now,
                             call.reset, 2)
           /\ call.result.nextReset # None
           /\ call.result.nextReset[1] > now
\* The decision has been made at a boundary of the cadence for a lastReset
\* half an hour earlier.
C40_DecidedOnBoundary ==
    /\ Returned("shouldReset")
    /\ call.reset \notin {"never", "hourly"}
    /\ IsBoundary(call.reset, now)
    /\ call.lastReset = Some(now - 1)
    /\ call.result.nextReset # None
    /\ call.result.nextReset[1] > now

====
